---- MODULE Spec2Model ----
(***************************************************************************)
(* A model of the travel itinerary manager of aichatbot.py: the            *)
(* Destination record, the ItineraryManager collection with its            *)
(* add / remove / update / search / save / load operations, and the two    *)
(* validated input flows add_flow and update_flow.                         *)
(*                                                                         *)
(* Python values are represented as follows.                               *)
(*   str       a sequence of one-character strings, <<"G","o","a">>        *)
(*   datetime  a record [y, m, d] (the flows only build midnight values)   *)
(*   float     a record [kind, c]: kind "num" with c the value in          *)
(*             hundredths, or kind "nan" (every comparison with nan is     *)
(*             false, as in IEEE 754)                                      *)
(*   None / v  the sequences <<>> / <<v>>                                  *)
(*   list      a sequence                                                  *)
(***************************************************************************)
EXTENDS Integers, Sequences, FiniteSets, TLC

VARIABLES destinations, file, padsYear, last

vars == <<destinations, file, padsYear, last>>

\* The longest collection the model builds.
MaxLen == 3

None == <<>>
Some(v) == <<v>>

----------------------------------------------------------------------------
(* str: lower(), the `in` substring test, strip(), split(",")              *)

UpperAlpha ==
  <<"A","B","C","D","E","F","G","H","I","J","K","L","M",
    "N","O","P","Q","R","S","T","U","V","W","X","Y","Z">>

LowerAlpha ==
  <<"a","b","c","d","e","f","g","h","i","j","k","l","m",
    "n","o","p","q","r","s","t","u","v","w","x","y","z">>

\* The lower-case letter of each upper-case letter.
LowerMap ==
  [c \in {UpperAlpha[i] : i \in 1..26} |->
     LowerAlpha[CHOOSE i \in 1..26 : UpperAlpha[i] = c]]

LowerChar(c) == IF c \in DOMAIN LowerMap THEN LowerMap[c] ELSE c

\* str.lower()
Lower(s) == [i \in 1..Len(s) |-> LowerChar(s[i])]

\* s in t, for two str
Contains(s, t) ==
  \E i \in 0..(Len(t) - Len(s)) : SubSeq(t, i + 1, i + Len(s)) = s

\* str.strip(): the blank is the only white space the inputs hold.
RECURSIVE LStrip(_)
LStrip(s) == IF s # <<>> /\ Head(s) = " " THEN LStrip(Tail(s)) ELSE s

RECURSIVE RStrip(_)
RStrip(s) ==
  IF s # <<>> /\ s[Len(s)] = " " THEN RStrip(SubSeq(s, 1, Len(s) - 1)) ELSE s

Strip(s) == RStrip(LStrip(s))

\* str.split(","): the pieces between the commas, empty ones included.
RECURSIVE SplitFrom(_, _, _)
SplitFrom(s, i, piece) ==
  IF i > Len(s) THEN <<piece>>
  ELSE IF s[i] = "," THEN <<piece>> \o SplitFrom(s, i + 1, <<>>)
  ELSE SplitFrom(s, i + 1, Append(piece, s[i]))

SplitComma(s) == SplitFrom(s, 1, <<>>)

Digits == <<"0","1","2","3","4","5","6","7","8","9">>

IsDigit(c) == \E i \in 1..10 : Digits[i] = c

DigitVal(c) == (CHOOSE i \in 1..10 : Digits[i] = c) - 1

AllDigits(s) == \A i \in 1..Len(s) : IsDigit(s[i])

\* int() of a string of digits
RECURSIVE IntOf(_)
IntOf(s) ==
  IF s = <<>> THEN 0
  ELSE 10 * IntOf(SubSeq(s, 1, Len(s) - 1)) + DigitVal(s[Len(s)])

----------------------------------------------------------------------------
(* datetime: strptime and strftime with DATE_FMT, and comparison           *)

IsLeap(y) == (y % 4 = 0 /\ y % 100 # 0) \/ y % 400 = 0

DaysIn(y, m) ==
  IF m = 2 THEN (IF IsLeap(y) THEN 29 ELSE 28)
  ELSE IF m \in {4, 6, 9, 11} THEN 30 ELSE 31

\* %m: 1[0-2] | 0[1-9] | [1-9]
MonthToken(t) ==
  /\ Len(t) \in {1, 2}
  /\ AllDigits(t)
  /\ IntOf(t) \in 1..12

\* %d: 3[01] | [12]\d | 0[1-9] | [1-9] | " "[1-9]
DayToken(t) ==
  \/ Len(t) \in {1, 2} /\ AllDigits(t) /\ IntOf(t) \in 1..31
  \/ Len(t) = 2 /\ t[1] = " " /\ IsDigit(t[2]) /\ t[2] # "0"

DayOf(t) == IF t[1] = " " THEN DigitVal(t[2]) ELSE IntOf(t)

NoDate == [y |-> 0, m |-> 0, d |-> 0]

\* datetime.strptime(s, "%Y-%m-%d"): four digits of year, a dash, the
\* month, a dash and the day, with nothing left over; year 0 and a day the
\* month does not have are rejected.  ok is FALSE where Python raises
\* ValueError.
StrpTime(s) ==
  LET p == IF Len(s) >= 7 /\ s[7] = "-" THEN 7 ELSE 8
      shaped == /\ Len(s) > p
                /\ AllDigits(SubSeq(s, 1, 4))
                /\ s[5] = "-"
                /\ s[p] = "-"
                /\ MonthToken(SubSeq(s, 6, p - 1))
                /\ DayToken(SubSeq(s, p + 1, Len(s)))
      y == IntOf(SubSeq(s, 1, 4))
      m == IntOf(SubSeq(s, 6, p - 1))
      d == DayOf(SubSeq(s, p + 1, Len(s)))
  IN IF shaped /\ y >= 1 /\ d <= DaysIn(y, m)
     THEN [ok |-> TRUE, val |-> [y |-> y, m |-> m, d |-> d]]
     ELSE [ok |-> FALSE, val |-> NoDate]

\* valid_date
ValidDate(s) == StrpTime(s).ok

\* parse_date
ParseDate(s) == StrpTime(s).val

\* The decimal digits of a natural number.
RECURSIVE DigitsOf(_)
DigitsOf(n) ==
  IF n < 10 THEN <<Digits[n + 1]>>
  ELSE Append(DigitsOf(n \div 10), Digits[(n % 10) + 1])

RECURSIVE ZeroPad(_, _)
ZeroPad(s, w) == IF Len(s) >= w THEN s ELSE ZeroPad(<<"0">> \o s, w)

\* datetime.strftime("%Y-%m-%d").  %m and %d are two digits.  %Y is the
\* platform's: the C library either pads the year to four digits or, as
\* glibc does, writes it without leading zeros; pads tells which.
StrfTime(dt, pads) ==
  (IF pads THEN ZeroPad(DigitsOf(dt.y), 4) ELSE DigitsOf(dt.y))
    \o <<"-">> \o ZeroPad(DigitsOf(dt.m), 2)
    \o <<"-">> \o ZeroPad(DigitsOf(dt.d), 2)

DateGt(a, b) ==
  \/ a.y > b.y
  \/ a.y = b.y /\ a.m > b.m
  \/ a.y = b.y /\ a.m = b.m /\ a.d > b.d

----------------------------------------------------------------------------
(* float: float(s) and the comparisons with 0                              *)

Num(c) == [kind |-> "num", c |-> c]
NaN == [kind |-> "nan", c |-> 0]

\* float(s), for the literals the inputs hold: an optional sign, digits and
\* at most two fractional digits, or nan in any case.  ok is FALSE where
\* Python raises ValueError.
FloatOf(s) ==
  LET signed == s # <<>> /\ s[1] \in {"+", "-"}
      body == IF signed THEN Tail(s) ELSE s
      sign == IF signed /\ s[1] = "-" THEN -1 ELSE 1
      dot == IF \E i \in 1..Len(body) : body[i] = "."
             THEN CHOOSE i \in 1..Len(body) : body[i] = "."
             ELSE Len(body) + 1
      whole == SubSeq(body, 1, dot - 1)
      frac == SubSeq(body, dot + 1, Len(body))
  IN IF Lower(body) = <<"n", "a", "n">> THEN [ok |-> TRUE, val |-> NaN]
     ELSE IF /\ AllDigits(whole) /\ AllDigits(frac)
             /\ Len(whole) + Len(frac) > 0
             /\ Len(frac) <= 2
          THEN [ok |-> TRUE,
                val |-> Num(sign * (100 * IntOf(whole)
                                      + IntOf(SubSeq(frac \o <<"0", "0">>, 1, 2))))]
          ELSE [ok |-> FALSE, val |-> Num(0)]

\* v <= 0
FloatLeZero(v) == v.kind = "num" /\ v.c <= 0

\* v > 0
FloatGtZero(v) == v.kind = "num" /\ v.c > 0

\* check_positive: ok is FALSE where it raises ValueError, from float() or
\* from its own test.
CheckPositive(s) ==
  LET f == FloatOf(s)
  IN IF ~f.ok \/ FloatLeZero(f.val) THEN [ok |-> FALSE, val |-> Num(0)]
     ELSE [ok |-> TRUE, val |-> f.val]

----------------------------------------------------------------------------
(* Destination                                                             *)

FieldNames == {"city", "country", "start_date", "end_date", "budget", "activities"}

\* Attributes every Destination has through its class.
ClassAttrs == {"update_details", "to_dict", "from_dict", "__str__", "__init__"}

\* Destination.__init__: the six fields; `extra` holds the names of the
\* instance attributes that setattr has created besides them.
Destination(city, country, start_date, end_date, budget, activities) ==
  [city |-> city, country |-> country, start_date |-> start_date,
   end_date |-> end_date, budget |-> budget, activities |-> activities,
   extra |-> {}]

\* hasattr(self, k)
HasAttr(d, k) == k \in FieldNames \cup ClassAttrs \cup d.extra

\* setattr(self, k, v)
SetAttr(d, k, v) ==
  IF k \in FieldNames THEN [d EXCEPT ![k] = v]
  ELSE [d EXCEPT !.extra = @ \cup {k}]

\* The value a keyword-argument mapping holds under key k.
KwValue(kw, k) ==
  CASE k = "city" -> kw.city
    [] k = "country" -> kw.country
    [] k = "start_date" -> kw.start_date
    [] k = "end_date" -> kw.end_date
    [] k = "budget" -> kw.budget
    [] k = "activities" -> kw.activities
    [] OTHER -> kw.other

RECURSIVE ApplyKw(_, _, _)
ApplyKw(d, kw, i) ==
  IF i > Len(kw.order) THEN [d |-> d, raised |-> FALSE]
  ELSE LET k == kw.order[i]
           v == KwValue(kw, k)
       IN IF v = None THEN ApplyKw(d, kw, i + 1)
          ELSE IF HasAttr(d, k) THEN ApplyKw(SetAttr(d, k, v[1]), kw, i + 1)
          ELSE [d |-> d, raised |-> TRUE]

\* Destination.update_details(**kwargs): the keys in the mapping's order.
UpdateDetails(d, kw) == ApplyKw(d, kw, 1)

\* Destination.to_dict: the mapping json.dump writes.  `missing` lists the
\* keys a stored record lacks; to_dict writes all six.
ToDict(d, pads) ==
  [city |-> d.city, country |-> d.country,
   start_date |-> StrfTime(d.start_date, pads),
   end_date |-> StrfTime(d.end_date, pads),
   budget |-> d.budget, activities |-> d.activities, missing |-> {}]

\* Destination.from_dict: the arguments are evaluated from left to right, so
\* the first key that is missing raises KeyError and the first date that
\* strptime rejects raises ValueError.
FromDict(rec) ==
  LET Fail(e) == [err |-> e,
                  val |-> Destination(<<>>, <<>>, NoDate, NoDate, Num(0), <<>>)]
  IN IF "city" \in rec.missing \/ "country" \in rec.missing
          \/ "start_date" \in rec.missing THEN Fail("KeyError")
     ELSE IF ~StrpTime(rec.start_date).ok THEN Fail("ValueError")
     ELSE IF "end_date" \in rec.missing THEN Fail("KeyError")
     ELSE IF ~StrpTime(rec.end_date).ok THEN Fail("ValueError")
     ELSE IF "budget" \in rec.missing \/ "activities" \in rec.missing
          THEN Fail("KeyError")
     ELSE [err |-> "None",
           val |-> Destination(rec.city, rec.country, StrpTime(rec.start_date).val,
                               StrpTime(rec.end_date).val, rec.budget, rec.activities)]

----------------------------------------------------------------------------
(* ItineraryManager: the operations on the list self.destinations.  Each   *)
(* operator gives the list the call leaves behind and what the call        *)
(* returns or raises.                                                      *)

\* d.city.lower() == city.lower()
CityMatches(d, city) == Lower(d.city) = Lower(city)

\* ItineraryManager.add_destination
AddDestination(ds, d) == Append(ds, d)

\* list.remove(x): drops the first element equal to x.  Destination defines
\* no __eq__, so Python compares by identity; the element found is then the
\* object x itself, and dropping the first element of equal value leaves
\* the same sequence of values.
ListRemove(ds, x) ==
  LET i == CHOOSE j \in 1..Len(ds) : ds[j] = x /\ \A h \in 1..(j - 1) : ds[h] # x
  IN SubSeq(ds, 1, i - 1) \o SubSeq(ds, i + 1, Len(ds))

RECURSIVE RemoveEach(_, _, _)
RemoveEach(ds, dlist, i) ==
  IF i > Len(dlist) THEN ds
  ELSE RemoveEach(ListRemove(ds, dlist[i]), dlist, i + 1)

\* A remove that stops after the first matching entry.
RemoveFirstMatchOnly(ds, city) ==
  LET Match(d) == CityMatches(d, city)
      dlist == SelectSeq(ds, Match)
  IN IF dlist = <<>> THEN [ds |-> ds, ret |-> "False"]
     ELSE [ds |-> ListRemove(ds, dlist[1]), ret |-> "True"]

\* ItineraryManager.remove_destination
RemoveDestination(ds, city) ==
  LET Match(d) == CityMatches(d, city)
      dlist == SelectSeq(ds, Match)
  IN IF dlist = <<>> THEN [ds |-> ds, ret |-> "False"]
     ELSE [ds |-> RemoveEach(ds, dlist, 1), ret |-> "True"]

RECURSIVE UpdateLoop(_, _, _, _, _)
UpdateLoop(ds, city, kw, i, found) ==
  IF i > Len(ds) THEN [ds |-> ds, ret |-> IF found THEN "True" ELSE "False"]
  ELSE IF CityMatches(ds[i], city)
       THEN LET r == UpdateDetails(ds[i], kw)
                ds2 == [ds EXCEPT ![i] = r.d]
            IN IF r.raised THEN [ds |-> ds2, ret |-> "AttributeError"]
               ELSE UpdateLoop(ds2, city, kw, i + 1, TRUE)
       ELSE UpdateLoop(ds, city, kw, i + 1, found)

\* ItineraryManager.update_destination(city, **kwargs).  A keyword named
\* city collides with the positional parameter: Python rejects the call
\* with TypeError before the body runs.
UpdateDestination(ds, city, kw) ==
  IF \E i \in 1..Len(kw.order) : kw.order[i] = "city"
  THEN [ds |-> ds, ret |-> "TypeError"]
  ELSE UpdateLoop(ds, city, kw, 1, FALSE)

\* A search that looks at city and country only.
SearchNoActivities(ds, s) ==
  LET t == Lower(s)
      Hit(d) == Contains(t, Lower(d.city)) \/ Contains(t, Lower(d.country))
  IN SelectSeq(ds, Hit)

\* ItineraryManager.search_destination
SearchDestination(ds, s) ==
  LET t == Lower(s)
      Hit(d) == \/ Contains(t, Lower(d.city))
                \/ Contains(t, Lower(d.country))
                \/ \E j \in 1..Len(d.activities) : Contains(t, Lower(d.activities[j]))
  IN SelectSeq(ds, Hit)

\* The file at the path.  kind says what reading it gives:
\*   absent       os.path.exists is false
\*   unreadable   open() raises OSError
\*   undecodable  the bytes are not UTF-8: reading raises UnicodeDecodeError
\*   badtext      json.load raises JSONDecodeError (the empty file included)
\*   number       the text is a JSON number
\*   emptyobject  the text is the JSON object {}
\*   records      the text is a JSON array of objects, recs
\* json.dump and json.load keep strings, lists and numbers (NaN included) as
\* they are.  bySave and src remember that save_to_file wrote the file, and
\* from which collection.
File(kind, recs) == [kind |-> kind, recs |-> recs, bySave |-> FALSE, src |-> <<>>]

\* ItineraryManager.save_to_file: open(filename, "w") empties the file, then
\* the records are built and written.  An entry whose to_dict has been
\* overwritten by setattr is not callable: TypeError, with the file left
\* empty.
SaveToFile(ds, pads) ==
  IF \E i \in 1..Len(ds) : "to_dict" \in ds[i].extra
  THEN [file |-> File("badtext", <<>>), ret |-> "TypeError"]
  ELSE [file |-> [kind |-> "records",
                  recs |-> [i \in 1..Len(ds) |-> ToDict(ds[i], pads)],
                  bySave |-> TRUE, src |-> ds],
        ret |-> "None"]

\* The error the list comprehension over the records ends with, "None" if
\* every record converts.
RECURSIVE FirstError(_, _)
FirstError(recs, i) ==
  IF i > Len(recs) THEN "None"
  ELSE IF FromDict(recs[i]).err # "None" THEN FromDict(recs[i]).err
  ELSE FirstError(recs, i + 1)

\* A load that appends to the collection it finds.
LoadMerging(ds, f) ==
  IF f.kind = "records" /\ FirstError(f.recs, 1) = "None"
  THEN [ds |-> ds \o [i \in 1..Len(f.recs) |-> FromDict(f.recs[i]).val], ret |-> "None"]
  ELSE [ds |-> ds, ret |-> "None"]

\* ItineraryManager.load_from_file: only IOError and json.JSONDecodeError
\* are caught; any other exception leaves the method before
\* self.destinations is assigned.
LoadFromFile(ds, f) ==
  CASE f.kind = "absent" -> [ds |-> <<>>, ret |-> "None"]
    [] f.kind = "unreadable" -> [ds |-> <<>>, ret |-> "None"]
    [] f.kind = "undecodable" -> [ds |-> ds, ret |-> "UnicodeDecodeError"]
    [] f.kind = "badtext" -> [ds |-> <<>>, ret |-> "None"]
    [] f.kind = "number" -> [ds |-> ds, ret |-> "TypeError"]
    [] f.kind = "emptyobject" -> [ds |-> <<>>, ret |-> "None"]
    [] f.kind = "records" ->
         IF FirstError(f.recs, 1) # "None"
         THEN [ds |-> ds, ret |-> FirstError(f.recs, 1)]
         ELSE [ds |-> [i \in 1..Len(f.recs) |-> FromDict(f.recs[i]).val],
               ret |-> "None"]

----------------------------------------------------------------------------
(* The values the model draws its inputs from.                             *)

S_Goa == <<"G","o","a">>
S_GOA == <<"G","O","A">>
S_goa == <<"g","o","a">>
S_Go == <<"G","o">>
S_Rome == <<"R","o","m","e">>
S_ROME == <<"R","O","M","E">>
S_Pune == <<"P","u","n","e">>
S_India == <<"I","n","d","i","a">>
S_Italy == <<"I","t","a","l","y">>
S_Beach == <<"B","e","a","c","h">>
S_beach == <<"b","e","a","c","h">>
S_food == <<"f","o","o","d">>
S_museum == <<"m","u","s","e","u","m">>

Date(y, m, d) == [y |-> y, m |-> m, d |-> d]
Jun01 == Date(2025, 6, 1)
Jun10 == Date(2025, 6, 10)
Jul01 == Date(2025, 7, 1)

\* The Destination objects handed to add_destination.
Templates ==
  { Destination(S_Goa, S_India, Jun01, Jun10, Num(200000), <<S_Beach, S_food>>),
    Destination(S_ROME, S_Italy, Jun01, Jun01, Num(1), <<S_museum>>) }

\* The city arguments of remove_destination and update_destination.
CityArgs == {S_goa, S_Rome, S_Go}

\* The search terms.
Terms == {<<>>, S_beach, <<"O","M">>, <<"i","n","d">>}

NoKw ==
  [order |-> <<>>, city |-> None, country |-> None, start_date |-> None,
   end_date |-> None, budget |-> None, activities |-> None, other |-> None]

\* The keyword arguments of update_destination: the keys in the order the
\* caller wrote them, and the value under each.
KwargsSet ==
  { [NoKw EXCEPT !.order = <<"country", "budget", "activities">>,
                 !.budget = Some(Num(500000))],
    [NoKw EXCEPT !.order = <<"budget", "unknown_key">>,
                 !.budget = Some(Num(500000)), !.other = Some(5)],
    [NoKw EXCEPT !.order = <<"unknown_key", "budget">>,
                 !.budget = Some(Num(500000)), !.other = Some(5)],
    [NoKw EXCEPT !.order = <<"unknown_key">>],
    [NoKw EXCEPT !.order = <<"to_dict">>, !.other = Some(5)],
    [NoKw EXCEPT !.order = <<"city">>, !.city = Some(S_Pune)] }

\* How many entries of ds match city.
MatchCount(ds, city) == Cardinality({i \in 1..Len(ds) : CityMatches(ds[i], city)})

NoFile == File("absent", <<>>)

Done(op, city, kw, ret, res, n) ==
  [op |-> op, city |-> city, kw |-> kw, ret |-> ret, res |-> res, n |-> n]

----------------------------------------------------------------------------
(* The manager driven through its public operations.                       *)

Init ==
  /\ destinations = <<>>
  /\ file = NoFile
  /\ padsYear = TRUE
  /\ last = Done("init", <<>>, NoKw, "None", <<>>, 0)

Add ==
  \E d \in Templates :
    /\ Len(destinations) < MaxLen
    /\ destinations' = AddDestination(destinations, d)
    /\ last' = Done("add", d.city, NoKw, "None", <<>>, 0)
    /\ UNCHANGED <<file, padsYear>>

Remove ==
  \E city \in CityArgs :
    LET r == RemoveDestination(destinations, city)
    IN /\ destinations' = r.ds
       /\ last' = Done("remove", city, NoKw, r.ret, <<>>, MatchCount(destinations, city))
       /\ UNCHANGED <<file, padsYear>>

Update ==
  \E city \in CityArgs, kw \in KwargsSet :
    LET r == UpdateDestination(destinations, city, kw)
    IN /\ destinations' = r.ds
       /\ last' = Done("update", city, kw, r.ret, <<>>, MatchCount(destinations, city))
       /\ UNCHANGED <<file, padsYear>>

Search ==
  \E term \in Terms :
    /\ last' = Done("search", term, NoKw, "list", SearchDestination(destinations, term), 0)
    /\ UNCHANGED <<destinations, file, padsYear>>

Next == Add \/ Remove \/ Update \/ Search

Spec == Init /\ [][Next]_vars

----------------------------------------------------------------------------
(* The input flows: what add_flow and update_flow do with the lines the    *)
(* user types.  ret names the message of the branch the flow ended in.     *)

\* input_activities, on the line typed
InputActivities(line) ==
  LET pieces == SplitComma(Strip(line))
      Kept(a) == Strip(a) # <<>>
      kept == SelectSeq(pieces, Kept)
  IN [i \in 1..Len(kept) |-> Strip(kept[i])]

\* add_flow
AddFlow(ds, cityIn, countryIn, startIn, endIn, budgetIn, actsIn) ==
  LET city == Strip(cityIn)
      country == Strip(countryIn)
      start == Strip(startIn)
      end == Strip(endIn)
      budget == CheckPositive(Strip(budgetIn))
      activities == InputActivities(actsIn)
  IN IF ~ValidDate(start) THEN [ds |-> ds, ret |-> "Invalid start date format."]
     ELSE IF ~ValidDate(end) THEN [ds |-> ds, ret |-> "Invalid end date format."]
     ELSE IF ~budget.ok THEN [ds |-> ds, ret |-> "Invalid budget:"]
     ELSE IF activities = <<>>
          THEN [ds |-> ds, ret |-> "Please provide at least one activity."]
     ELSE IF DateGt(ParseDate(start), ParseDate(end))
          THEN [ds |-> ds, ret |-> "Start date must be before or equal to end date."]
     ELSE [ds |-> AddDestination(ds, Destination(city, country, ParseDate(start),
                                                  ParseDate(end), budget.val, activities)),
           ret |-> "Destination added successfully."]

\* input(...).strip() or None
StripOrNone(line) == IF Strip(line) = <<>> THEN None ELSE Some(Strip(line))

\* update_flow
UpdateFlow(ds, cityIn, countryIn, startIn, endIn, budgetIn, actsIn) ==
  LET city == Strip(cityIn)
      new_country == StripOrNone(countryIn)
      new_start == StripOrNone(startIn)
      new_end == StripOrNone(endIn)
      new_budget == StripOrNone(budgetIn)
      budget == IF new_budget = None THEN [ok |-> TRUE, val |-> Num(0)]
                ELSE CheckPositive(new_budget[1])
      new_acts == StripOrNone(actsIn)
      acts == IF new_acts = None THEN <<>>
              ELSE LET pieces == SplitComma(new_acts[1])
                       Kept(a) == Strip(a) # <<>>
                       kept == SelectSeq(pieces, Kept)
                   IN [i \in 1..Len(kept) |-> Strip(kept[i])]
  IN IF new_start # None /\ ~ValidDate(new_start[1])
     THEN [ds |-> ds, ret |-> "Invalid date."]
     ELSE IF new_end # None /\ ~ValidDate(new_end[1])
     THEN [ds |-> ds, ret |-> "Invalid date."]
     ELSE IF ~budget.ok THEN [ds |-> ds, ret |-> "Invalid budget:"]
     ELSE IF new_acts # None /\ acts = <<>>
     THEN [ds |-> ds, ret |-> "Activities cannot be empty."]
     ELSE UpdateDestination(ds, city,
            [order |-> <<"country", "start_date", "end_date", "budget", "activities">>,
             city |-> None,
             country |-> new_country,
             start_date |-> IF new_start = None THEN None
                            ELSE Some(ParseDate(new_start[1])),
             end_date |-> IF new_end = None THEN None ELSE Some(ParseDate(new_end[1])),
             budget |-> IF new_budget = None THEN None ELSE Some(budget.val),
             activities |-> IF new_acts = None THEN None ELSE Some(acts),
             other |-> None])

\* The longest collection the flows build.
FlowMaxLen == 2

\* The lines typed.
L_blank == <<>>
L_Goa == <<" ","G","o","a">>
L_goa == <<"g","o","a"," ">>
L_India == <<"I","n","d","i","a">>
L_Jun01 == <<"2","0","2","5","-","0","6","-","0","1">>
L_Jun10 == <<"2","0","2","5","-","0","6","-","1","0">>
L_Jul01 == <<"2","0","2","5","-","0","7","-","0","1">>
L_BadDate == <<"0","6","/","0","1","/","2","0","2","5">>
L_2000 == <<"2","0","0","0">>
L_001 == <<"0",".","0","1">>
L_0 == <<"0">>
L_minus5 == <<"-","5">>
L_abc == <<"a","b","c">>
L_nan == <<"n","a","n">>
L_Acts == <<"B","e","a","c","h",","," ","f","o","o","d",",">>
L_Commas == <<" ",","," ",","," ">>

AddDates == {L_Jun01, L_Jun10, L_BadDate}
AddBudgets == {L_2000, L_0, L_minus5, L_abc, L_nan}
AddActs == {L_Acts, L_Commas}
UpdDates == {L_blank, L_Jul01, L_BadDate}
UpdBudgets == {L_blank, L_001, L_0, L_nan}
UpdActs == {L_blank, L_Commas}

AddFlowStep ==
  \E startIn \in AddDates, endIn \in AddDates, budgetIn \in AddBudgets, actsIn \in AddActs :
    LET r == AddFlow(destinations, L_Goa, L_India, startIn, endIn, budgetIn, actsIn)
    IN /\ Len(destinations) < FlowMaxLen
       /\ destinations' = r.ds
       /\ last' = Done("add_flow", <<>>, NoKw, r.ret, <<>>, 0)
       /\ UNCHANGED <<file, padsYear>>

UpdateFlowStep ==
  \E startIn \in UpdDates, endIn \in {L_blank, L_Jun01}, budgetIn \in UpdBudgets,
     actsIn \in UpdActs :
    LET r == UpdateFlow(destinations, L_goa, L_blank, startIn, endIn, budgetIn, actsIn)
    IN /\ destinations' = r.ds
       /\ last' = Done("update_flow", <<>>, NoKw, r.ret, <<>>, 0)
       /\ UNCHANGED <<file, padsYear>>

FlowNext == AddFlowStep \/ UpdateFlowStep

FlowSpec == Init /\ [][FlowNext]_vars

\* The messages of the branches in which a flow rejects its input.
Rejections ==
  { "Invalid start date format.", "Invalid end date format.", "Invalid date.",
    "Invalid budget:", "Please provide at least one activity.",
    "Activities cannot be empty.", "Start date must be before or equal to end date." }

\* C3: after any sequence of add_flow and update_flow runs from the empty
\* collection, every entry has start_date <= end_date.
C3_DateOrderKept ==
  \A i \in 1..Len(destinations) :
    ~DateGt(destinations[i].start_date, destinations[i].end_date)

\* C9: after any sequence of add_flow and update_flow runs from the empty
\* collection every entry has budget > 0 and at least one activity, and a
\* run that rejects its input leaves the collection as it was.
C9_ValidationKeepsState ==
  [][/\ \A i \in 1..Len(destinations') :
          /\ FloatGtZero(destinations'[i].budget)
          /\ destinations'[i].activities # <<>>
     /\ (last'.ret \in Rejections) => (destinations' = destinations)]_vars

----------------------------------------------------------------------------
(* The manager with its file: entries are added, the collection is saved   *)
(* and loaded, an entry's to_dict may be overwritten through update, and   *)
(* the file may be replaced from outside the program.                      *)

Jan01_999 == Date(999, 1, 1)

\* The entries added before a save; the second is dated in the year 999,
\* which add_flow accepts when typed as 0999-01-01.
PersistTemplates ==
  { Destination(S_Goa, S_India, Jun01, Jun10, Num(200000), <<S_Beach, S_food>>),
    Destination(S_ROME, S_Italy, Jan01_999, Jan01_999, Num(1), <<S_museum>>) }

PuneRecord ==
  [city |-> S_Pune, country |-> S_India, start_date |-> L_Jun01, end_date |-> L_Jun10,
   budget |-> Num(200000), activities |-> <<S_food>>, missing |-> {}]

\* What the file may hold when it is not the manager that wrote it.
ExternalFiles ==
  { File("absent", <<>>),
    File("unreadable", <<>>),
    File("undecodable", <<>>),
    File("badtext", <<>>),
    File("number", <<>>),
    File("emptyobject", <<>>),
    File("records", <<PuneRecord>>),
    File("records", <<PuneRecord, [PuneRecord EXCEPT !.missing = {"budget"}]>>),
    File("records", <<[PuneRecord EXCEPT !.end_date = L_BadDate]>>) }

PersistInit ==
  /\ destinations = <<>>
  /\ file = NoFile
  /\ padsYear \in BOOLEAN
  /\ last = Done("init", <<>>, NoKw, "None", <<>>, 0)

PersistAdd ==
  \E d \in PersistTemplates :
    /\ Len(destinations) < MaxLen
    /\ destinations' = AddDestination(destinations, d)
    /\ last' = Done("add", d.city, NoKw, "None", <<>>, 0)
    /\ UNCHANGED <<file, padsYear>>

\* update_destination("goa", to_dict=5)
PersistUpdate ==
  LET kw == [NoKw EXCEPT !.order = <<"to_dict">>, !.other = Some(5)]
      r == UpdateDestination(destinations, S_goa, kw)
  IN /\ destinations' = r.ds
     /\ last' = Done("update", S_goa, kw, r.ret, <<>>, MatchCount(destinations, S_goa))
     /\ UNCHANGED <<file, padsYear>>

Save ==
  LET r == SaveToFile(destinations, padsYear)
  IN /\ file' = r.file
     /\ last' = Done("save", <<>>, NoKw, r.ret, <<>>, Len(destinations))
     /\ UNCHANGED <<destinations, padsYear>>

Load ==
  LET r == LoadFromFile(destinations, file)
  IN /\ destinations' = r.ds
     /\ last' = Done("load", <<>>, NoKw, r.ret, <<>>, Len(destinations))
     /\ UNCHANGED <<file, padsYear>>

EnvWrite ==
  \E f \in ExternalFiles :
    /\ file' = f
    /\ last' = Done("env", <<>>, NoKw, "None", <<>>, 0)
    /\ UNCHANGED <<destinations, padsYear>>

PersistNext == PersistAdd \/ PersistUpdate \/ Save \/ Load \/ EnvWrite

PersistSpec == PersistInit /\ [][PersistNext]_vars

----------------------------------------------------------------------------
(* Vocabulary of the properties, stated without the operators above.       *)

\* Two characters that are the same letter, whatever their case.
SameLetter(a, b) ==
  \/ a = b
  \/ \E i \in 1..26 : {a, b} = {UpperAlpha[i], LowerAlpha[i]}

\* Two strings equal ignoring case.
EqIgnoreCase(s, t) ==
  /\ Len(s) = Len(t)
  /\ \A i \in 1..Len(s) : SameLetter(s[i], t[i])

\* s occurs in t ignoring case.
OccursIgnoreCase(s, t) ==
  \E off \in 0..(Len(t) - Len(s)) :
    \A k \in 1..Len(s) : SameLetter(s[k], t[off + k])

\* The names a keyword-argument mapping supplies.
Supplied(kw) == {kw.order[i] : i \in 1..Len(kw.order)}

\* C1: when update(city, fields) fails with UnknownField, no field of any
\* entry of the collection has changed.
C1_UnknownFieldLeavesCollection ==
  [][(last'.op = "update" /\ last'.ret = "AttributeError")
       => destinations' = destinations]_vars

\* C4: remove(city) removes every entry whose city equals the argument
\* ignoring case and only those; the other entries stay, unchanged and in
\* order; the result is true exactly when an entry was removed, and the
\* collection is unchanged when the result is false.
C4_RemoveAllMatching ==
  [][last'.op = "remove" =>
       LET city == last'.city
           Stays(d) == ~EqIgnoreCase(d.city, city)
       IN /\ \A i \in 1..Len(destinations') : Stays(destinations'[i])
          /\ destinations' = SelectSeq(destinations, Stays)
          /\ last'.ret \in {"True", "False"}
          /\ (last'.ret = "True") <=> (Len(destinations') < Len(destinations))
          /\ (last'.ret = "False") => (destinations' = destinations)]_vars

\* remove has just removed two entries and left a third one in place.
C4_Witness ==
  /\ last.op = "remove"
  /\ last.ret = "True"
  /\ last.n = 2
  /\ Len(destinations) = 1

\* C5: update(city, fields) with recognized field names only updates every
\* entry matching city ignoring case and no other: a field supplied with a
\* non-null value is overwritten, every other field keeps its value; the
\* length and order are unchanged; the result is true exactly when an entry
\* matched.
C5_UpdateRecognizedFields ==
  [][(last'.op = "update" /\ Supplied(last'.kw) \subseteq FieldNames) =>
       LET city == last'.city
           kw == last'.kw
           Given(f) == f \in Supplied(kw) /\ KwValue(kw, f) # None
       IN /\ Len(destinations') = Len(destinations)
          /\ last'.ret \in {"True", "False"}
          /\ (last'.ret = "True") <=>
               (\E i \in 1..Len(destinations) : EqIgnoreCase(destinations[i].city, city))
          /\ \A i \in 1..Len(destinations) :
               IF EqIgnoreCase(destinations[i].city, city)
               THEN \A f \in DOMAIN destinations[i] :
                      destinations'[i][f] =
                        IF Given(f) THEN KwValue(kw, f)[1] ELSE destinations[i][f]
               ELSE destinations'[i] = destinations[i]]_vars

\* C5, for the fields update_destination can be handed (every recognized
\* name but city): the same statement, which the code satisfies.
C5_UpdateFieldsButCity ==
  [][(last'.op = "update" /\ Supplied(last'.kw) \subseteq (FieldNames \ {"city"})) =>
       LET city == last'.city
           kw == last'.kw
           Given(f) == f \in Supplied(kw) /\ KwValue(kw, f) # None
       IN /\ Len(destinations') = Len(destinations)
          /\ (last'.ret = "True") <=>
               (\E i \in 1..Len(destinations) : EqIgnoreCase(destinations[i].city, city))
          /\ last'.ret \in {"True", "False"}
          /\ \A i \in 1..Len(destinations) :
               IF EqIgnoreCase(destinations[i].city, city)
               THEN \A f \in DOMAIN destinations[i] :
                      destinations'[i][f] =
                        IF Given(f) THEN KwValue(kw, f)[1] ELSE destinations[i][f]
               ELSE destinations'[i] = destinations[i]]_vars

\* C7: search(term) returns exactly the entries in which term occurs,
\* ignoring case, in the city, the country or an activity, in collection
\* order; the empty term returns the whole collection; the collection is
\* unchanged.
C7_SearchExact ==
  [][last'.op = "search" =>
       LET term == last'.city
           Hit(d) == \/ OccursIgnoreCase(term, d.city)
                     \/ OccursIgnoreCase(term, d.country)
                     \/ \E j \in 1..Len(d.activities) :
                          OccursIgnoreCase(term, d.activities[j])
       IN /\ last'.res = SelectSeq(destinations, Hit)
          /\ (term = <<>>) => (last'.res = destinations)
          /\ destinations' = destinations]_vars

\* search has just matched, through an activity written in another case,
\* the first and the third entry of three.
C7_Witness ==
  /\ last.op = "search"
  /\ last.city = S_beach
  /\ Len(destinations) = 3
  /\ last.res = <<destinations[1], destinations[3]>>
  /\ destinations[2].city = S_ROME

\* C8: a non-null value under a name outside the six field names makes
\* update_details fail with UnknownField, and update(city, fields) lets it
\* reach the caller.
C8_OnlySixFieldNames ==
  [][(/\ last'.op = "update"
      /\ last'.n > 0
      /\ \E k \in Supplied(last'.kw) \ FieldNames : KwValue(last'.kw, k) # None)
       => last'.ret = "AttributeError"]_vars

\* A date string written YYYY-MM-DD.
IsoShape(t) ==
  /\ Len(t) = 10
  /\ \A i \in {1, 2, 3, 4, 6, 7, 9, 10} : IsDigit(t[i])
  /\ t[5] = "-" /\ t[8] = "-"

\* A record with the six keys and both dates written YYYY-MM-DD.
WellShaped(rec) ==
  rec.missing = {} /\ IsoShape(rec.start_date) /\ IsoShape(rec.end_date)

\* The file exists and is unreadable or structurally invalid.
InvalidFile(f) ==
  \/ f.kind \in {"unreadable", "undecodable", "badtext", "number", "emptyobject"}
  \/ f.kind = "records" /\ \E i \in 1..Len(f.recs) : ~WellShaped(f.recs[i])

\* The date a YYYY-MM-DD string writes.
IsoDate(t) ==
  [y |-> IntOf(SubSeq(t, 1, 4)), m |-> IntOf(SubSeq(t, 6, 7)),
   d |-> IntOf(SubSeq(t, 9, 10))]

\* Two floats that Python's == calls equal.
FloatEq(a, b) == a.kind = "num" /\ b.kind = "num" /\ a.c = b.c

\* Two Destinations equal in all six fields.
SameFields(a, b) ==
  /\ a.city = b.city /\ a.country = b.country
  /\ a.start_date = b.start_date /\ a.end_date = b.end_date
  /\ FloatEq(a.budget, b.budget) /\ a.activities = b.activities

\* A Destination the validated construction can produce.
ValidDestination(d) ==
  /\ ~DateGt(d.start_date, d.end_date)
  /\ FloatGtZero(d.budget)
  /\ d.activities # <<>>
  /\ d.extra = {}

\* C2: load on a file that exists but is unreadable or structurally invalid
\* never raises and leaves the collection empty, whatever it held before.
C2_InvalidFileResets ==
  [][(last'.op = "load" /\ InvalidFile(file))
       => (last'.ret = "None" /\ destinations' = <<>>)]_vars

\* C6: a collection of valid Destinations that save has written is read
\* back by load with the same length and each entry equal to the original
\* in all six fields.
C6_RoundTrip ==
  [][(/\ last'.op = "load"
      /\ file.bySave
      /\ \A i \in 1..Len(file.src) : ValidDestination(file.src[i]))
       => /\ last'.ret = "None"
          /\ Len(destinations') = Len(file.src)
          /\ \A i \in 1..Len(file.src) : SameFields(destinations'[i], file.src[i])]_vars

\* C10: when load returns normally the collection is what the file says and
\* nothing else: empty when there is no file, the records in file order
\* when the file holds records, and no entry held before survives.
C10_LoadReplaces ==
  [][(last'.op = "load" /\ last'.ret = "None") =>
       IF file.kind = "records"
       THEN /\ Len(destinations') = Len(file.recs)
            /\ \A i \in 1..Len(file.recs) :
                 LET rec == file.recs[i]
                     d == destinations'[i]
                 IN /\ d.city = rec.city /\ d.country = rec.country
                    /\ d.budget = rec.budget /\ d.activities = rec.activities
                    /\ d.extra = {}
                    /\ IsoShape(rec.start_date) => d.start_date = IsoDate(rec.start_date)
                    /\ IsoShape(rec.end_date) => d.end_date = IsoDate(rec.end_date)
       ELSE destinations' = <<>>]_vars

\* load has just replaced a collection of two entries by the one record of
\* a file written elsewhere.
C10_Witness ==
  /\ last.op = "load"
  /\ last.ret = "None"
  /\ last.n = 2
  /\ Len(destinations) = 1
  /\ destinations[1].city = S_Pune
  /\ ~file.bySave

====
